---- MODULE Spec2Model ----
(***************************************************************************)
(* Model of streamlit_app.py: the "Run Accumulation" handler and the       *)
(* helpers it calls (read_df, in_window, to_number_series,                 *)
(* summarize_frames, ensure_destination_sheet, write_to_dest).             *)
(*                                                                         *)
(* Time is counted in whole hours of wall clock since 2024-01-01 00:00.    *)
(* A cell is a record [t, s, n]: a string (t = "str"), a number            *)
(* (t = "num"), a timestamp (t = "ts", n = hours) or a missing value       *)
(* (t = "na": NaN / NaT).                                                  *)
(***************************************************************************)
EXTENDS Integers, Sequences, FiniteSets, TLC

\* ---- bounds of the exploration ------------------------------------------
\* most source spreadsheets in one run (sheet_urls / files of the folder)
MaxSources == 3
\* most data rows over all the source tabs of one run
MaxRows == 2

\* ---- cells --------------------------------------------------------------
Str(s) == [t |-> "str", s |-> s, n |-> 0]
Num(n) == [t |-> "num", s |-> "", n |-> n]
Ts(h) == [t |-> "ts", s |-> "", n |-> h]
NA == [t |-> "na", s |-> "", n |-> 0]

Range(q) == {q[i] : i \in 1..Len(q)}

\* ---- the tables the worksheets can hold ----------------------------------
\* two header rows with the same names in a different order
TemplateA == <<"k", "Date", "v", "w">>
TemplateB == <<"w", "k", "Date", "v">>
Headers == {TemplateA, TemplateB}
ColumnNames == Range(TemplateA)

\* values ws.get_all_records() can return for each column, in a fixed order:
\* strings, the blank cell "" and numbers (gspread turns a cell that reads as
\* a number into one)
CellsOf(c) ==
  CASE c = "k" -> <<Str("x"), Str("")>>
    [] c = "Date" -> <<Str("2024-01-02 00:00"), Str("2024-01-01 18:00"), Str("n/a")>>
    [] c = "v" -> <<Str("1,000"), Str("abc")>>
    [] c = "w" -> <<Num(5)>>

\* the records of the sheets: six rows in which every pair of cell values of two
\* columns occurs together (the i-th key with the j-th date holds the
\* (i+j)-th value of v, counted round)
Records ==
  {[c \in ColumnNames |->
      CASE c = "k" -> CellsOf("k")[i]
        [] c = "Date" -> CellsOf("Date")[j]
        [] c = "v" -> CellsOf("v")[((i + j) % 2) + 1]
        [] c = "w" -> CellsOf("w")[1]]
     : i \in 1..2, j \in 1..3}

RowSeqs(n) == UNION {[1..m -> Records] : m \in 0..n}

\* a worksheet: its header row and the records below it, at most n of them
Worksheets(n) == {[header |-> h, records |-> rs] : h \in Headers, rs \in RowSeqs(n)}

EmptyDF == [columns |-> <<>>, rows |-> <<>>]

\* read_df: pd.DataFrame(ws.get_all_records()). A tab without data rows gives
\* no records, and the frame built from no records has no columns. The header
\* names of the model carry no surrounding blanks, so the strip keeps them.
read_df(ws) ==
  IF ws.records = <<>> THEN EmptyDF
  ELSE [columns |-> ws.header, rows |-> ws.records]

\* ---- dates and the time window -------------------------------------------
\* utc+7 of tz = timezone(timedelta(hours=7))
TzOffsetHours == 7

\* datetime.combine(date(2024, 1, d), datetime.min.time()): midnight of
\* January d 2024 on the wall clock
Midnight(d) == (d - 1) * 24

\* datetime(y, 1, 1) for the years the model meets; 2023 has 365 days
YearStart(y) == (y - 2024) * 365 * 24

\* x.astimezone(timezone.utc).replace(tzinfo=None) of a utc+7 datetime: the
\* naive utc reading of the same instant
ToUtcNaive(x) == x - TzOffsetHours

\* pd.to_datetime(value, errors="coerce") of the date cells of the model
to_datetime(c) ==
  CASE c = Str("2024-01-02 00:00") -> Ts(24)
    [] c = Str("2024-01-01 18:00") -> Ts(18)
    [] c.t = "ts" -> c
    [] OTHER -> NA

in_window(d, start, end) ==
  IF d.t = "na" THEN FALSE
  ELSE d.n >= start /\ d.n < end

\* ---- numbers ------------------------------------------------------------
\* str(value).replace(",", "")
StripCommas(s) ==
  CASE s = "1,000" -> "1000"
    [] OTHER -> s

\* pd.to_numeric(text, errors="coerce") of one value
ParseNumber(s) ==
  CASE s = "1000" -> Num(1000)
    [] s = "5" -> Num(5)
    [] OTHER -> NA

\* astype(str) of one value
AsStr(c) ==
  CASE c.t = "str" -> c.s
    [] c = Num(5) -> "5"
    [] c = Num(1000) -> "1000"
    [] OTHER -> "nan"

\* to_number_series, one value of the series
to_number(c) == ParseNumber(StripCommas(AsStr(c)))

\* ---- summarize_frames -----------------------------------------------------
NoError == [kind |-> "none", index |-> 0, expected |-> <<>>, got |-> <<>>, column |-> ""]

\* raise ValueError("Sheet #i columns differ from template. Expected .. Got ..")
SchemaMismatch(i, expected, got) ==
  [kind |-> "SchemaMismatch", index |-> i, expected |-> expected, got |-> got, column |-> ""]

\* raise ValueError("KEY_COL 'k' not found ..") / ("DATE_COL 'd' not found ..")
ColumnNotFound(kind, c, base_cols) ==
  [kind |-> kind, index |-> 0, expected |-> base_cols, got |-> <<>>, column |-> c]

\* any other exception, by its kind
OtherError(kind) ==
  [kind |-> kind, index |-> 0, expected |-> <<>>, got |-> <<>>, column |-> ""]

\* what summarize_frames hands back, with the locals all_df (after the mask)
\* and numeric_cols as they stand when it returns or raises, and the stages
\* it got through
Locals(all_df, numeric_cols, stages) ==
  [all_df |-> all_df, numeric_cols |-> numeric_cols, stages |-> stages]

Returned(df, base_cols, loc) ==
  [ok |-> TRUE, df |-> df, base_cols |-> base_cols, err |-> NoError, loc |-> loc]

Raised(e, loc) ==
  [ok |-> FALSE, df |-> EmptyDF, base_cols |-> <<>>, err |-> e, loc |-> loc]

Min(S) == CHOOSE x \in S : \A y \in S : x <= y

\* a comparison of the names that forgets their order
ColumnsDiffer_names(cols, base_cols) == Range(cols) # Range(base_cols)

\* list(df.columns) != base_cols
ColumnsDiffer(cols, base_cols) == cols # base_cols

\* a function that never compares the sheets with the template
MismatchedSheets_none(frames) == {}

\* the sheet numbers the loop "for i, df in enumerate(frames[1:], start=2)"
\* would raise at; the loop raises at the least of them
MismatchedSheets(frames) ==
  {i \in 2..Len(frames) : ColumnsDiffer(frames[i].columns, frames[1].columns)}

\* "for k in key_cols: if k not in base_cols": positions of the keys not found
MissingKeys(key_cols, base_cols) ==
  {j \in 1..Len(key_cols) : key_cols[j] \notin Range(base_cols)}

\* pd.concat(frames, ignore_index=True) of frames that share their columns
RECURSIVE ConcatRows(_)
ConcatRows(frames) ==
  IF frames = <<>> THEN <<>>
  ELSE frames[1].rows \o ConcatRows(Tail(frames))

\* all_df[date_col] = pd.to_datetime(all_df[date_col], errors="coerce")
ParseDateColumn(rows, date_col) ==
  [i \in 1..Len(rows) |-> [rows[i] EXCEPT ![date_col] = to_datetime(rows[i][date_col])]]

\* mask = all_df[date_col].apply(in_window); all_df = all_df[mask]
FilterWindow(rows, date_col, start, end) ==
  SelectSeq(rows, LAMBDA r : in_window(r[date_col], start, end))

\* cand.notna().any() of cand = to_number_series(all_df[c])
AnyNumeric(rows, c) == \E i \in 1..Len(rows) : to_number(rows[i][c]).t = "num"

\* non_keys = [c for c in all_df.columns if c not in (set(key_cols) | {date_col})]
NonKeys(cols, key_cols, date_col) ==
  SelectSeq(cols, LAMBDA c : c \notin (Range(key_cols) \cup {date_col}))

\* the loop over non_keys that fills numeric_cols
NumericCols(rows, cols, key_cols, date_col) ==
  SelectSeq(NonKeys(cols, key_cols, date_col), LAMBDA c : AnyNumeric(rows, c))

\* all_df[c] = cand for every column of numeric_cols
Coerce(rows, numeric_cols) ==
  [i \in 1..Len(rows) |->
     [c \in DOMAIN rows[i] |->
        IF c \in Range(numeric_cols) THEN to_number(rows[i][c]) ELSE rows[i][c]]]

\* the tuple of key values groupby files a row under
KeyOf(row, key_cols) == [j \in 1..Len(key_cols) |-> row[key_cols[j]]]

\* groupby(.., dropna=False) keeps the rows whose key is missing
GroupKeys(rows, key_cols) == {KeyOf(rows[i], key_cols) : i \in 1..Len(rows)}

\* the order groupby(sort=True) gives the group keys: strings by their
\* characters, timestamps by time, missing values last
StrRank(s) ==
  CASE s = "" -> 0
    [] s = "1,000" -> 1
    [] s = "2024-01-01 18:00" -> 2
    [] s = "2024-01-02 00:00" -> 3
    [] s = "abc" -> 4
    [] s = "n/a" -> 5
    [] OTHER -> 6

CellLess(a, b) ==
  IF a.t = "na" \/ b.t = "na" THEN a.t # "na" /\ b.t = "na"
  ELSE IF a.t = "str" /\ b.t = "str" THEN StrRank(a.s) < StrRank(b.s)
  ELSE a.n < b.n

RECURSIVE TupleLess(_, _)
TupleLess(a, b) ==
  IF a = <<>> \/ b = <<>> THEN FALSE
  ELSE IF a[1] = b[1] THEN TupleLess(Tail(a), Tail(b))
  ELSE CellLess(a[1], b[1])

RECURSIVE SortKeys(_)
SortKeys(S) ==
  IF S = {} THEN <<>>
  ELSE LET m == CHOOSE x \in S : \A y \in S \ {x} : TupleLess(x, y)
       IN <<m>> \o SortKeys(S \ {m})

\* an aggregation that keeps the first value of a group, not the sum
SumColumn_first(rows, c) ==
  IF rows = <<>> THEN 0
  ELSE IF rows[1][c].t = "num" THEN rows[1][c].n ELSE 0

\* .agg({c: "sum"}) of one group: the sum of the values that are not missing,
\* 0 when there is none
RECURSIVE SumColumn(_, _)
SumColumn(rows, c) ==
  IF rows = <<>> THEN 0
  ELSE (IF rows[1][c].t = "num" THEN rows[1][c].n ELSE 0) + SumColumn(Tail(rows), c)

\* a reorder that leaves keys and numeric columns in template order
Ordered_template(key_cols, base_cols, numeric_cols) ==
  SelectSeq(base_cols, LAMBDA c : c \in Range(key_cols) \cup Range(numeric_cols))

\* ordered = key_cols + [c for c in base_cols if c in numeric_cols and c not in key_cols]
Ordered(key_cols, base_cols, numeric_cols) ==
  key_cols \o SelectSeq(base_cols,
                LAMBDA c : c \in Range(numeric_cols) /\ c \notin Range(key_cols))

\* groupby(key_cols, dropna=False).agg(agg_map).reset_index().reindex(columns=ordered)
GroupSum(rows, key_cols, numeric_cols, ordered) ==
  LET keys == SortKeys(GroupKeys(rows, key_cols))
      grp(g) == SelectSeq(rows, LAMBDA r : KeyOf(r, key_cols) = g)
      pos(c) == CHOOSE j \in 1..Len(key_cols) : key_cols[j] = c
  IN [i \in 1..Len(keys) |->
        [c \in Range(ordered) |->
           IF c \in Range(key_cols) THEN keys[i][pos(c)]
           ELSE Num(SumColumn(grp(keys[i]), c))]]

\* the frame returned when the window leaves no row
EmptyResult(key_cols, base_cols) == [columns |-> key_cols, rows |-> <<>>]

summarize_frames(frames, key_cols, date_col, start, end) ==
  IF frames = <<>> THEN Returned(EmptyDF, <<>>, Locals(<<>>, <<>>, <<>>))
  ELSE
    LET base_cols == frames[1].columns
        bad == MismatchedSheets(frames)
        miss == MissingKeys(key_cols, base_cols)
    IN
    IF bad # {}
      THEN Raised(SchemaMismatch(Min(bad), base_cols, frames[Min(bad)].columns),
                  Locals(<<>>, <<>>, <<>>))
    ELSE IF miss # {}
      THEN Raised(ColumnNotFound("KeyColNotFound", key_cols[Min(miss)], base_cols),
                  Locals(<<>>, <<>>, <<"schema">>))
    ELSE IF date_col \notin Range(base_cols)
      THEN Raised(ColumnNotFound("DateColNotFound", date_col, base_cols),
                  Locals(<<>>, <<>>, <<"schema">>))
    ELSE
      LET all_df == FilterWindow(ParseDateColumn(ConcatRows(frames), date_col),
                                 date_col, start, end)
          numeric_cols == NumericCols(all_df, base_cols, key_cols, date_col)
          ordered == Ordered(key_cols, base_cols, numeric_cols)
      IN
      IF all_df = <<>>
        THEN Returned(EmptyResult(key_cols, base_cols), base_cols,
                      Locals(all_df, <<>>, <<"schema", "required", "filter">>))
      \* DataFrame.groupby([]) raises ValueError("No group keys passed!")
      ELSE IF key_cols = <<>>
        THEN Raised(OtherError("NoGroupKeys"),
                    Locals(all_df, numeric_cols, <<"schema", "required", "filter">>))
      \* .agg({}) raises ValueError("No objects to concatenate")
      ELSE IF numeric_cols = <<>>
        THEN Raised(OtherError("NoObjectsToConcatenate"),
                    Locals(all_df, numeric_cols, <<"schema", "required", "filter">>))
      ELSE Returned([columns |-> ordered,
                     rows |-> GroupSum(Coerce(all_df, numeric_cols), key_cols,
                                       numeric_cols, ordered)],
                    base_cols,
                    Locals(all_df, numeric_cols,
                           <<"schema", "required", "filter", "aggregate">>))

\* ---- the widgets --------------------------------------------------------
\* what st.multiselect("KEY columns ..") can hold: nothing, one header, two
\* headers in the order they were picked, a header the sources do not have
\* (the options come from the previewed sheet, not from the sources read)
KeyChoices == {<<>>, <<"k">>, <<"Date", "k">>, <<"k", "zz">>}

\* what st.selectbox("Date column ..") can hold
DateColChoices == {"Date", "When"}

\* the days of January 2024 the two st.date_input widgets are set to
DateChoices == {2, 3}

\* datetime.now(tz).date(), as a day of January 2024
Todays == {3}

Modes == {"Daily (yesterday)", "Yearly (previous year)", "Custom range"}

\* today_local.year
YearOf(d) == 2024

\* what d_from and d_to can hold: a date input in "Custom range", nothing
\* otherwise (the model then puts today in their place, and Window does not
\* read it)
DateInputs(m, today) == IF m = "Custom range" THEN DateChoices ELSE {today}

\* start_dt and end_dt of expander 5, as wall-clock hours at utc+7
Window(m, today, d_from, d_to) ==
  CASE m = "Daily (yesterday)" ->
         [start |-> Midnight(today - 1), end |-> Midnight(today)]
    [] m = "Yearly (previous year)" ->
         [start |-> YearStart(YearOf(today) - 1), end |-> YearStart(YearOf(today))]
    [] OTHER ->
         [start |-> Midnight(d_from), end |-> Midnight(d_to)]

\* dest_tab of the run
DestTab(m) ==
  CASE m = "Daily (yesterday)" -> "Report_Daily"
    [] m = "Yearly (previous year)" -> "Report_Yearly"
    [] OTHER -> "Report_Custom"

\* ---- the run ---------------------------------------------------------------
VARIABLES
  pc,           \* where the handler of "Run Accumulation" stands
  src_mode,     \* st.radio of expander 2
  key_cols,     \* st.multiselect of expander 4
  todo,         \* sources still to read
  frames,       \* the frames collected so far
  date_col,     \* st.selectbox of expander 4
  mode,         \* st.radio of expander 5
  start_dt,     \* start of the window, wall-clock hours at utc+7
  end_dt,       \* end of the window, wall-clock hours at utc+7
  all_df,       \* summarize_frames: the rows left by the mask
  numeric_cols, \* summarize_frames: the columns found numeric
  result_df,    \* the frame summarize_frames returned
  base_cols,    \* the column list summarize_frames returned
  error,        \* the exception caught by the handler
  stop_msg,     \* the st.error message before st.stop()
  passed,       \* the stages completed, in order
  dest_ws,      \* the destination tab, as far as this run changed it
  dest_log      \* the calls that changed the destination, in order

vars == <<pc, src_mode, key_cols, todo, frames, date_col, mode, start_dt, end_dt,
          all_df, numeric_cols, result_df, base_cols, error, stop_msg, passed,
          dest_ws, dest_log>>

Untouched == [state |-> "untouched", tab |-> "", columns |-> <<>>, rows |-> <<>>]

Init ==
  /\ pc = "idle"
  /\ src_mode = ""
  /\ key_cols = <<>>
  /\ todo = 0
  /\ frames = <<>>
  /\ date_col = ""
  /\ mode = ""
  /\ start_dt = 0
  /\ end_dt = 0
  /\ all_df = <<>>
  /\ numeric_cols = <<>>
  /\ result_df = EmptyDF
  /\ base_cols = <<>>
  /\ error = NoError
  /\ stop_msg = ""
  /\ passed = <<>>
  /\ dest_ws = Untouched
  /\ dest_log = <<>>

\* a check that lets an empty key list through
NoKeyCols_never(keys) == FALSE

\* "if not key_cols"
NoKeyCols(keys) == keys = <<>>

\* the first st.error of lines 256-267 that applies, "" when none does
InputError(sa_json, sm, n_urls, folder_id, keys) ==
  IF ~sa_json THEN "Missing Service Account JSON."
  ELSE IF sm = "List of Sheet URLs" /\ n_urls = 0
    THEN "Please enter at least one source sheet URL."
  ELSE IF sm = "Folder ID" /\ ~folder_id
    THEN "Please enter a Drive Folder ID or switch to URLs mode."
  ELSE IF NoKeyCols(keys) THEN "Select at least one KEY column."
  ELSE ""

\* lines 253-267: the checks of the inputs
ValidateInputs ==
  /\ pc = "idle"
  /\ \E sa_json \in BOOLEAN, sm \in {"List of Sheet URLs", "Folder ID"},
        n_urls \in 0..MaxSources, folder_id \in BOOLEAN, keys \in KeyChoices :
       \* expander 2 leaves sheet_urls empty in folder mode and folder_id
       \* empty in URL mode
       /\ sm = "Folder ID" => n_urls = 0
       /\ sm = "List of Sheet URLs" => ~folder_id
       /\ src_mode' = sm
       /\ key_cols' = keys
       /\ todo' = n_urls
       /\ LET msg == InputError(sa_json, sm, n_urls, folder_id, keys)
          IN /\ stop_msg' = msg
             /\ pc' = IF msg = "" THEN "auth" ELSE "stopped"
             /\ passed' = IF msg = "" THEN <<"validate">> ELSE passed
  /\ UNCHANGED <<frames, date_col, mode, start_dt, end_dt, all_df, numeric_cols,
                 result_df, base_cols, error, dest_ws, dest_log>>

\* line 269: get_gc_and_creds; json.loads or the credentials may raise
Authorize ==
  /\ pc = "auth"
  /\ \E ok \in BOOLEAN :
       IF ok
       THEN /\ pc' = "list"
            /\ passed' = Append(passed, "auth")
            /\ error' = error
       ELSE /\ pc' = "failed"
            /\ passed' = passed
            /\ error' = OtherError("AuthError")
  /\ UNCHANGED <<src_mode, key_cols, todo, frames, date_col, mode, start_dt, end_dt,
                 all_df, numeric_cols, result_df, base_cols, stop_msg, dest_ws,
                 dest_log>>

\* lines 273 and 277-289: the sources to read are the URLs, or the files the
\* Drive API lists in the folder
ListSources ==
  /\ pc = "list"
  /\ IF src_mode = "List of Sheet URLs"
     THEN /\ pc' = "collect"
          /\ UNCHANGED <<todo, stop_msg>>
     ELSE \E build_ok \in BOOLEAN, n_files \in 0..MaxSources :
            IF ~build_ok
            THEN /\ stop_msg' = "google-api-python-client is not installed."
                 /\ pc' = "stopped"
                 /\ todo' = todo
            ELSE IF n_files = 0
            THEN /\ stop_msg' = "No spreadsheets found in the folder."
                 /\ pc' = "stopped"
                 /\ todo' = todo
            ELSE /\ stop_msg' = stop_msg
                 /\ pc' = "collect"
                 /\ todo' = n_files
  /\ UNCHANGED <<src_mode, key_cols, frames, date_col, mode, start_dt, end_dt, all_df,
                 numeric_cols, result_df, base_cols, error, passed, dest_ws, dest_log>>

RECURSIVE TotalRows(_)
TotalRows(fs) == IF fs = <<>> THEN 0 ELSE Len(fs[1].rows) + TotalRows(Tail(fs))

\* lines 274-276 and 290-293: one turn of the loop that opens a source tab and
\* appends its frame; open_ws_by_url raises when the tab is not there
ReadSource ==
  /\ pc = "collect"
  /\ todo > 0
  /\ \/ \E ws \in Worksheets(MaxRows - TotalRows(frames)) :
          /\ frames' = Append(frames, read_df(ws))
          /\ todo' = todo - 1
          /\ UNCHANGED <<pc, error>>
     \/ /\ pc' = "failed"
        /\ error' = OtherError("WorksheetNotFound")
        /\ UNCHANGED <<frames, todo>>
  /\ UNCHANGED <<src_mode, key_cols, date_col, mode, start_dt, end_dt, all_df,
                 numeric_cols, result_df, base_cols, stop_msg, passed, dest_ws,
                 dest_log>>

\* a handler that goes on to the destination whatever summarize_frames did
AfterSummarize_always(r) == "ensure"

\* lines 296-322: the handler goes on to the destination when summarize_frames
\* returns, and to the except clause when it raises
AfterSummarize(r) == IF r.ok THEN "ensure" ELSE "failed"

\* lines 296-302: the window of expander 5 is turned to naive utc and handed to
\* summarize_frames with the frames. The widgets date_col, mode and the two
\* dates are first read here. frames is not read again after the call, and
\* the model lets go of it.
Summarize ==
  /\ pc = "collect"
  /\ todo = 0
  /\ \E dc \in DateColChoices, m \in Modes, today \in Todays :
     \* the date inputs are only drawn in "Custom range"
     \E d_from \in DateInputs(m, today), d_to \in DateInputs(m, today) :
       /\ LET w == Window(m, today, d_from, d_to)
              r == summarize_frames(frames, key_cols, dc,
                                    ToUtcNaive(w.start), ToUtcNaive(w.end))
          IN /\ date_col' = dc
             /\ mode' = m
             /\ start_dt' = w.start
             /\ end_dt' = w.end
             /\ all_df' = r.loc.all_df
             /\ numeric_cols' = r.loc.numeric_cols
             /\ result_df' = r.df
             /\ base_cols' = r.base_cols
             /\ error' = r.err
             /\ passed' = passed \o <<"collect">> \o r.loc.stages
             /\ pc' = AfterSummarize(r)
  /\ frames' = <<>>
  /\ UNCHANGED <<src_mode, key_cols, todo, stop_msg, dest_ws, dest_log>>

\* lines 135-147 and 309: ensure_destination_sheet keeps a given URL and
\* creates a new spreadsheet for a blank one
EnsureDestination ==
  /\ pc = "ensure"
  /\ \E url_given \in BOOLEAN, build_ok \in BOOLEAN, create_ok \in BOOLEAN :
       IF url_given
       THEN /\ pc' = "write"
            /\ passed' = Append(passed, "ensure")
            /\ UNCHANGED <<error, dest_log>>
       ELSE IF ~build_ok
       THEN /\ pc' = "failed"
            /\ error' = OtherError("RuntimeError")
            /\ UNCHANGED <<passed, dest_log>>
       ELSE IF ~create_ok
       THEN /\ pc' = "failed"
            /\ error' = OtherError("DriveError")
            /\ UNCHANGED <<passed, dest_log>>
       ELSE /\ pc' = "write"
            /\ passed' = Append(passed, "ensure")
            /\ dest_log' = Append(dest_log, "create_spreadsheet")
            /\ error' = error
  /\ UNCHANGED <<src_mode, key_cols, todo, frames, date_col, mode, start_dt, end_dt,
                 all_df, numeric_cols, result_df, base_cols, stop_msg, dest_ws>>

\* df.empty: no row or no column
IsEmpty(df) == df.rows = <<>> \/ df.columns = <<>>

\* line 132: "df if not df.empty else pd.DataFrame()"
Handed(df) == IF ~IsEmpty(df) THEN df ELSE EmptyDF

Max(a, b) == IF a >= b THEN a ELSE b

\* lines 128-129: the size of a tab made for df
NewTabSize(df) ==
  [rows |-> Max(Len(df.rows) + 5, 100), cols |-> Max(Len(df.columns) + 2, 26)]

\* lines 122-132 and 313-319: write_to_dest opens the spreadsheet, clears the
\* tab or makes it, and writes the frame with its header row
WriteToDest ==
  /\ pc = "write"
  /\ \E open_ok \in BOOLEAN, found \in BOOLEAN, set_ok \in BOOLEAN :
       \* a spreadsheet made by this run has no report tab yet
       /\ "create_spreadsheet" \in Range(dest_log) => ~found
       /\ IF ~open_ok
          THEN /\ pc' = "failed"
               /\ error' = OtherError("SpreadsheetNotFound")
               /\ UNCHANGED <<passed, dest_ws, dest_log>>
          ELSE LET tab == DestTab(mode)
                   first == IF found THEN "clear" ELSE "add_worksheet"
                   size == IF found THEN [rows |-> 0, cols |-> 0]
                           ELSE NewTabSize(result_df)
                   df == Handed(result_df)
               IN IF ~set_ok
                  THEN /\ pc' = "failed"
                       /\ error' = OtherError("APIError")
                       /\ passed' = passed
                       /\ dest_ws' = [state |-> first, tab |-> tab, columns |-> <<>>,
                                      rows |-> <<>>]
                       /\ dest_log' = Append(dest_log, first)
                  ELSE /\ pc' = "done"
                       /\ error' = error
                       /\ passed' = Append(passed, "write")
                       /\ dest_ws' = [state |-> "written", tab |-> tab,
                                      columns |-> df.columns, rows |-> df.rows]
                       /\ dest_log' = dest_log \o <<first, "set_with_dataframe">>
  /\ UNCHANGED <<src_mode, key_cols, todo, frames, date_col, mode, start_dt, end_dt,
                 all_df, numeric_cols, result_df, base_cols, stop_msg>>

Next ==
  \/ ValidateInputs
  \/ Authorize
  \/ ListSources
  \/ ReadSource
  \/ Summarize
  \/ EnsureDestination
  \/ WriteToDest

Spec == Init /\ [][Next]_vars

\* ==== the properties =========================================================

\* the step in which the handler calls summarize_frames
SummarizeStep == pc = "collect" /\ todo = 0 /\ pc' \in {"ensure", "failed"}

\* the run has a frame from summarize_frames in hand
HasResult == pc \in {"ensure", "write", "done"}

Count(q, S) == Cardinality({i \in 1..Len(q) : q[i] \in S})

\* the stages in front of the destination
PipelineStages == {"validate", "auth", "collect", "schema", "required", "filter"}

\* C1: the destination is written at most once in a run, and only after every
\* earlier stage has succeeded; a run that fails or stops before the write
\* leaves the destination as it was (nothing cleared, created or written).
C1_WriteOnlyAfterPipeline ==
  /\ Count(dest_log, {"set_with_dataframe"}) <= 1
  /\ Count(dest_log, {"clear", "add_worksheet"}) <= 1
  /\ dest_log # <<>> =>
       /\ PipelineStages \subseteq Range(passed)
       /\ "aggregate" \in Range(passed) \/ all_df = <<>>
       /\ stop_msg = ""
       /\ error.kind \notin {"AuthError", "WorksheetNotFound", "SchemaMismatch",
                             "KeyColNotFound", "DateColNotFound", "NoGroupKeys",
                             "NoObjectsToConcatenate"}
  /\ (pc \in {"stopped", "failed"} /\ "ensure" \notin Range(passed)) =>
       (dest_log = <<>> /\ dest_ws = Untouched)

\* a run that failed in the required-column check and left the destination alone
C1_Witness ==
  /\ pc = "failed"
  /\ error.kind = "DateColNotFound"
  /\ dest_log = <<>>
  /\ dest_ws = Untouched

\* C2: the first table's columns are the template, and summarize_frames fails
\* at the first table (in source order) whose column sequence is not the same
\* names in the same order; the error carries that table's 1-based index, the
\* template and the table's own columns, and nothing is merged.
C2_FirstMismatchReported ==
  [][SummarizeStep =>
       LET differ == {i \in 1..Len(frames) : frames[i].columns # frames[1].columns}
       IN IF differ = {}
          THEN error'.kind # "SchemaMismatch"
          ELSE /\ pc' = "failed"
               /\ error'.kind = "SchemaMismatch"
               /\ error'.index \in differ
               /\ \A j \in 1..(error'.index - 1) : j \notin differ
               /\ error'.expected = frames[1].columns
               /\ error'.got = frames[error'.index].columns
               /\ result_df' = EmptyDF
               /\ all_df' = <<>>]_vars

\* two sources agree and the third, a tab without data rows, is the first to
\* differ
C2_Witness ==
  /\ pc = "failed"
  /\ error.kind = "SchemaMismatch"
  /\ error.index = 3
  /\ error.expected = TemplateA
  /\ error.got = <<>>
  /\ result_df = EmptyDF

\* C3: with the window [start_dt, end_dt) the run builds at utc+7, a row is kept
\* exactly when its date parses to a wall-clock time t with
\* start_dt <= t < end_dt; rows that do not parse are dropped.
C3_KeptIffInWindow ==
  [][(SummarizeStep /\ "filter" \in Range(passed')) =>
       LET inside(r) ==
             LET t == to_datetime(r[date_col'])
             IN t.t = "ts" /\ start_dt' <= t.n /\ t.n < end_dt'
       IN all_df' = ParseDateColumn(SelectSeq(ConcatRows(frames), inside), date_col')]_vars

\* ---- C4 -------------------------------------------------------------------
KeyTuple(r, keys) == [j \in 1..Len(keys) |-> r[keys[j]]]

RECURSIVE SumOver(_, _, _)
\* the sum, over the indices in I, of the numbers in column c of rows
SumOver(I, rows, c) ==
  IF I = {} THEN 0
  ELSE LET i == CHOOSE j \in I : TRUE
           x == to_number(rows[i][c])
       IN (IF x.t = "num" THEN x.n ELSE 0) + SumOver(I \ {i}, rows, c)

PermsOf(q) == {[i \in 1..Len(q) |-> q[p[i]]] : p \in Permutations(1..Len(q))}

\* the frames in any order, the rows of each frame in any order
Rearranged(fs) ==
  UNION {{g \in [1..Len(fs) -> UNION {{[f EXCEPT !.rows = rs] : rs \in PermsOf(f.rows)}
                                        : f \in Range(fs)}] :
             \A i \in 1..Len(fs) :
               \E rs \in PermsOf(p[i].rows) : g[i] = [p[i] EXCEPT !.rows = rs]}
           : p \in PermsOf(fs)}

\* one output row for each key tuple of rows, holding the tuple and the sums
OneRowPerGroup(rows, out) ==
  LET groups == {KeyTuple(rows[i], key_cols) : i \in 1..Len(rows)}
  IN /\ Len(out.rows) = Cardinality(groups)
     /\ \A g \in groups :
          \E i \in 1..Len(out.rows) :
            /\ KeyTuple(out.rows[i], key_cols) = g
            /\ \A c \in Range(out.columns) \ Range(key_cols) :
                 out.rows[i][c] =
                   Num(SumOver({j \in 1..Len(rows) : KeyTuple(rows[j], key_cols) = g},
                               rows, c))

\* the same set of output rows for every order of the rows and of the tables
SameForEveryOrder(fs, dc, start, end, out) ==
  \A gs \in Rearranged(fs) :
    LET r == summarize_frames(gs, key_cols, dc, start, end)
    IN r.ok /\ r.df.columns = out.columns /\ Range(r.df.rows) = Range(out.rows)

\* the rows of the sources, as read, that the window keeps
KeptAsRead(fs, dc, start, end) ==
  SelectSeq(ConcatRows(fs), LAMBDA r : in_window(to_datetime(r[dc]), start, end))

\* C4 as stated: the output has one row for each distinct tuple of key values
\* among the rows that passed the filter, with the key values unchanged and
\* each numeric column summed over the group (0 when nothing is there to
\* sum), and the set of output rows does not depend on the order of the rows
\* or of the tables.
C4_AsStated ==
  [][(SummarizeStep /\ "aggregate" \in Range(passed')) =>
       /\ OneRowPerGroup(KeptAsRead(frames, date_col', ToUtcNaive(start_dt'),
                                    ToUtcNaive(end_dt')), result_df')
       /\ SameForEveryOrder(frames, date_col', ToUtcNaive(start_dt'),
                            ToUtcNaive(end_dt'), result_df')]_vars

\* C4 amended: the key tuples are taken after the date column has been parsed,
\* so a date column used as key holds the parsed timestamp in the output; every
\* other key value is unchanged. Blank keys form one group.
C4_GroupSums ==
  [][(SummarizeStep /\ "aggregate" \in Range(passed')) =>
       /\ OneRowPerGroup(all_df', result_df')
       /\ \A c \in Range(key_cols) \ {date_col'} :
            {r[c] : r \in Range(result_df'.rows)} =
            {r[c] : r \in Range(KeptAsRead(frames, date_col', ToUtcNaive(start_dt'),
                                           ToUtcNaive(end_dt')))}
       /\ SameForEveryOrder(frames, date_col', ToUtcNaive(start_dt'),
                            ToUtcNaive(end_dt'), result_df')]_vars

\* two rows with a blank key were summed into one output row
C4_Witness ==
  /\ HasResult
  /\ key_cols = <<"k">>
  /\ Len(result_df.rows) = 1
  /\ result_df.rows[1]["k"] = Str("")
  /\ result_df.rows[1]["w"] = Num(10)
  /\ result_df.rows[1]["v"] = Num(1000)

\* C5: when the window leaves no row, the frame summarize_frames returns has no
\* row and the template's columns, and those columns are what the destination
\* tab receives.
C5_EmptyKeepsTemplate ==
  (HasResult /\ "filter" \in Range(passed) /\ all_df = <<>>) =>
    /\ result_df.rows = <<>>
    /\ result_df.columns = base_cols
    /\ pc = "done" => dest_ws.columns = base_cols

\* C6 as stated: an empty key list is accepted, and the run ends with one
\* output row.
C6_AsStated ==
  key_cols = <<>> =>
    /\ stop_msg # "Select at least one KEY column."
    /\ pc = "done" => Len(result_df.rows) = 1

\* C6 amended: a run with no key column stops in the input checks; it reads no
\* source, produces no output row and leaves the destination alone.
C6_NoKeysStopsRun ==
  (pc # "idle" /\ key_cols = <<>>) =>
    /\ pc = "stopped"
    /\ stop_msg # ""
    /\ frames = <<>>
    /\ passed = <<>>
    /\ result_df = EmptyDF
    /\ dest_log = <<>>

\* every other input was fine and the key list was empty
C6_Witness ==
  /\ pc = "stopped"
  /\ key_cols = <<>>
  /\ stop_msg = "Select at least one KEY column."

\* C7: a run whose window has start >= end aborts before any row is filtered,
\* and nothing is aggregated or written.
C7_BadWindowRejected ==
  (mode # "" /\ start_dt >= end_dt) =>
    /\ "filter" \notin Range(passed)
    /\ ~HasResult
    /\ dest_log = <<>>

\* C8: when every table agrees with the template and a key column or the date
\* column is not in it, summarize_frames fails with an error that names a
\* missing column, before anything is filtered, coerced or grouped; such an
\* error is only raised once every table has passed the schema validation.
C8_MissingColumnReported ==
  [][SummarizeStep =>
       LET template == frames[1].columns
           agree == \A i \in 1..Len(frames) : frames[i].columns = template
           missing == (Range(key_cols) \cup {date_col'}) \ Range(template)
       IN /\ (agree /\ missing # {}) =>
               /\ pc' = "failed"
               /\ error'.kind \in {"KeyColNotFound", "DateColNotFound"}
               /\ error'.column \in missing
               /\ error'.kind = "DateColNotFound" =>
                    (error'.column = date_col' /\ Range(key_cols) \subseteq Range(template))
               /\ error'.kind = "KeyColNotFound" => error'.column \in Range(key_cols)
               /\ "filter" \notin Range(passed')
               /\ all_df' = <<>>
               /\ numeric_cols' = <<>>
               /\ result_df' = EmptyDF
          /\ error'.kind \in {"KeyColNotFound", "DateColNotFound"} =>
               (agree /\ missing # {} /\ "schema" \in Range(passed'))]_vars

\* the second key column is not in the template
C8_Witness ==
  /\ pc = "failed"
  /\ error.kind = "KeyColNotFound"
  /\ error.column = "zz"
  /\ key_cols = <<"k", "zz">>
  /\ "schema" \in Range(passed)

NoDuplicates(q) == \A i, j \in 1..Len(q) : q[i] = q[j] => i = j

\* the key columns as given, then the numeric columns in template order
KeysThenNumeric(cols) ==
  /\ cols = key_cols \o SelectSeq(base_cols, LAMBDA c : c \in Range(numeric_cols))
  /\ NoDuplicates(cols)
  /\ \A c \in Range(base_cols) \ (Range(key_cols) \cup Range(numeric_cols)) :
       c \notin Range(cols)

\* C9 as stated: the output columns are the key columns in the order given,
\* then the numeric columns in template order; no key column is there twice,
\* and neither the date column nor a column that is neither key nor numeric is
\* there.
C9_AsStated ==
  HasResult =>
    /\ KeysThenNumeric(result_df.columns)
    /\ date_col \notin Range(result_df.columns)

\* C9 amended: as stated, but the date column is in the output when, and only
\* when, it is one of the key columns.
C9_OutputColumns ==
  HasResult =>
    /\ KeysThenNumeric(result_df.columns)
    /\ date_col \in Range(result_df.columns) <=> date_col \in Range(key_cols)

\* keys picked against template order, two numeric columns in template order
C9_Witness ==
  /\ HasResult
  /\ base_cols = TemplateB
  /\ key_cols = <<"Date", "k">>
  /\ result_df.columns = <<"Date", "k", "w", "v">>

\* C10: a column that is neither key nor date is numeric exactly when one of
\* its values, over all rows of all sources, parses as a number once its
\* commas are stripped, whichever rows the window keeps.
C10_NumericOverAllRows ==
  [][(SummarizeStep /\ "aggregate" \in Range(passed')) =>
       \A c \in Range(frames[1].columns) \ (Range(key_cols) \cup {date_col'}) :
         c \in Range(numeric_cols') <=>
           \E r \in Range(ConcatRows(frames)) : to_number(r[c]).t = "num"]_vars

====
